---- MODULE Spec2Model ----
(***************************************************************************)
(* Schema validation layer of the meal-plan service: the pydantic models   *)
(* of src/models/dining_location.py and src/models/meal_plan.py.           *)
(*                                                                         *)
(* A payload is a decoded JSON object: a function from the keys it carries *)
(* to JSON values.  A JSON value is [t |-> tag, v |-> number]; the tag     *)
(* tells what kind of JSON value it is, v which one of that kind.          *)
(* Validation of a payload against a shape yields Ok(record) or Err.       *)
(***************************************************************************)
EXTENDS Integers, Sequences, FiniteSets, TLC

VARIABLES req, res, pc, orig, issued, now, produced, stored, last

vars == <<req, res, pc, orig, issued, now, produced, stored, last>>

(* ---------------------------- bounds ----------------------------------- *)
\* UUIDs are 1..MaxUuid
MaxUuid == 4
\* the clock runs 0..MaxTime
MaxTime == 2

UUIDs == 1..MaxUuid

(* --------------------------- JSON values ------------------------------- *)
J(t, v) == [t |-> t, v |-> v]
\* JSON null
Null == J("null", 0)
\* a JSON string that spells neither a number, a UUID nor a date
Text(n) == J("str", n)
\* a JSON string spelling the integer n, such as "200"
NumStr(n) == J("numstr", n)
\* a JSON string in UUID format, spelling UUID u
UuidStr(u) == J("uuidstr", u)
\* a JSON string in ISO-8601 format: instant t, with the suffix Z when z = 1
DtStr(t, z) == J("dtstr", 2 * t + z)
\* JSON numbers: an integer literal, a literal with a fraction part .0,
\* and the literals Infinity / -Infinity / NaN that Python's json accepts
JInt(n) == J("int", n)
JFloat(n) == J("float", n)
JInf(s) == J("inf", s)
JNaN == J("nan", 0)
\* a JSON array of objects, and what may stand in its place: t = "null" is
\* JSON null, t = "str" a JSON string
JList(s) == [t |-> "list", v |-> s]
JNoList(t) == [t |-> t, v |-> <<>>]

StrTags == {"str", "numstr", "uuidstr", "dtstr"}

(* ------------------------- validation results -------------------------- *)
Ok(x) == [ok |-> TRUE, val |-> x]
Err == [ok |-> FALSE]

\* Optional[...] values: None, or the value
None == <<>>
Some(x) == <<x>>

Has(p, k) == k \in DOMAIN p

(* ----------------- pydantic's validators of the field types ------------ *)
\* str: only a string is a str (no coercion from numbers)
str_validate(j) == IF j.t \in StrTags THEN Ok(j) ELSE Err

\* int: an integer, a float without fraction part, or a string spelling one
int_validate(j) == IF j.t \in {"int", "float", "numstr"} THEN Ok(j.v) ELSE Err

\* float: any number (Infinity and NaN included) or a string spelling one
Fin(n) == [k |-> "fin", n |-> n]
float_validate(j) ==
    CASE j.t \in {"int", "float", "numstr"} -> Ok(Fin(j.v))
      [] j.t = "inf" -> Ok([k |-> "inf", n |-> j.v])
      [] j.t = "nan" -> Ok([k |-> "nan", n |-> 0])
      [] OTHER -> Err

\* UUID: a string in UUID format
uuid_validate(j) == IF j.t = "uuidstr" THEN Ok(j.v) ELSE Err

\* datetime: an ISO-8601 string (aware when it carries Z, naive otherwise),
\* or a number / numeric string taken as Unix time (aware, UTC)
Naive(t) == [t |-> t, tz |-> "naive"]
Utc(t) == [t |-> t, tz |-> "utc"]
datetime_validate(j) ==
    CASE j.t = "dtstr" -> Ok(IF j.v % 2 = 1 THEN Utc(j.v \div 2) ELSE Naive(j.v \div 2))
      [] j.t \in {"int", "float", "numstr"} -> Ok(Utc(j.v))
      [] OTHER -> Err

\* datetime.utcnow(): the naive UTC time of the clock
utcnow(t) == Naive(t)

(* ------------------------- DiningLocation ------------------------------ *)
\* default_factory=uuid4: a new UUID at every validation that needs one.
\* (uuid4_once: default=uuid4(), one UUID taken when the class is defined.)
uuid4_once(fresh) == 1
uuid4(fresh) == fresh

\* (_regenerated: the identifier always taken from uuid4, the payload's ignored.)
DiningLocationBase_dining_location_id_regenerated(p, fresh) == Ok(uuid4(fresh))
DiningLocationBase_dining_location_id(p, fresh) ==
    IF Has(p, "dining_location_id") THEN uuid_validate(p.dining_location_id)
    ELSE Ok(uuid4(fresh))

\* Field(...): required.  (_defaulted: the field declared with a default.)
DiningLocationBase_name_defaulted(p) ==
    IF Has(p, "name") THEN str_validate(p.name) ELSE Ok(Text(0))
DiningLocationBase_name(p) ==
    IF Has(p, "name") THEN str_validate(p.name) ELSE Err

DiningLocationBase_capacity(p) ==
    IF Has(p, "capacity") THEN int_validate(p.capacity) ELSE Err

DiningLocationBase(p, fresh) ==
    LET id == DiningLocationBase_dining_location_id(p, fresh)
        name == DiningLocationBase_name(p)
        capacity == DiningLocationBase_capacity(p)
    IN  IF id.ok /\ name.ok /\ capacity.ok
        THEN Ok([dining_location_id |-> id.val, name |-> name.val,
                 capacity |-> capacity.val])
        ELSE Err

DiningLocationCreate(p, fresh) == DiningLocationBase(p, fresh)

DiningLocationUpdate_name(p) ==
    IF Has(p, "name") /\ p.name # Null
    THEN LET r == str_validate(p.name) IN IF r.ok THEN Ok(Some(r.val)) ELSE Err
    ELSE Ok(None)

DiningLocationUpdate_capacity(p) ==
    IF Has(p, "capacity") /\ p.capacity # Null
    THEN LET r == int_validate(p.capacity) IN IF r.ok THEN Ok(Some(r.val)) ELSE Err
    ELSE Ok(None)

\* (_with_identifier: the Update shape also declaring
\* dining_location_id: Optional[UUID] = None.)
DiningLocationUpdate_with_identifier(p) ==
    LET id == IF Has(p, "dining_location_id") /\ p.dining_location_id # Null
              THEN uuid_validate(p.dining_location_id) ELSE Ok(0)
        name == DiningLocationUpdate_name(p)
        capacity == DiningLocationUpdate_capacity(p)
    IN  IF id.ok /\ name.ok /\ capacity.ok
        THEN Ok([dining_location_id |-> IF id.val = 0 THEN None ELSE Some(id.val),
                 name |-> name.val, capacity |-> capacity.val])
        ELSE Err
DiningLocationUpdate(p) ==
    LET name == DiningLocationUpdate_name(p)
        capacity == DiningLocationUpdate_capacity(p)
    IN  IF name.ok /\ capacity.ok
        THEN Ok([name |-> name.val, capacity |-> capacity.val])
        ELSE Err

DiningLocationRead_created_at(p, t) ==
    IF Has(p, "created_at") THEN datetime_validate(p.created_at) ELSE Ok(utcnow(t))

DiningLocationRead_updated_at(p, t) ==
    IF Has(p, "updated_at") THEN datetime_validate(p.updated_at) ELSE Ok(utcnow(t))

\* t1, t2: the clock when the default of created_at, of updated_at is taken
DiningLocationRead(p, fresh, t1, t2) ==
    LET base == DiningLocationBase(p, fresh)
        created_at == DiningLocationRead_created_at(p, t1)
        updated_at == DiningLocationRead_updated_at(p, t2)
    IN  IF base.ok /\ created_at.ok /\ updated_at.ok
        THEN Ok([dining_location_id |-> base.val.dining_location_id,
                 name |-> base.val.name, capacity |-> base.val.capacity,
                 created_at |-> created_at.val, updated_at |-> updated_at.val])
        ELSE Err

(* ----------------------------- MealPlan -------------------------------- *)
\* list lengths of dining_locations are 0..MaxEntries
MaxEntries == 2

\* The UUIDs one validation draws from uuid4 are named by slot: slot 1 is the
\* record's own identifier, slot 2 the `id` of MealPlanRead, slot 2 + i the
\* identifier of entry i of dining_locations.  fs maps the slots drawn to
\* the UUIDs uuid4 returned.
Slot(fs, n) == IF n \in DOMAIN fs THEN fs[n] ELSE 0

MealPlanBase_meal_plan_id(p, fs) ==
    IF Has(p, "meal_plan_id") THEN uuid_validate(p.meal_plan_id)
    ELSE Ok(uuid4(Slot(fs, 1)))

MealPlanBase_name(p) ==
    IF Has(p, "name") THEN str_validate(p.name) ELSE Err

MealPlanBase_type(p) ==
    IF Has(p, "type") THEN str_validate(p.type) ELSE Err

MealPlanBase_cost(p) ==
    IF Has(p, "cost") THEN float_validate(p.cost) ELSE Err

\* Optional[datetime] = None
OptionalDatetime(p, k) ==
    IF Has(p, k) /\ p[k] # Null
    THEN LET r == datetime_validate(p[k]) IN IF r.ok THEN Ok(Some(r.val)) ELSE Err
    ELSE Ok(None)

MealPlanBase_start_date(p) == OptionalDatetime(p, "start_date")
MealPlanBase_end_date(p) == OptionalDatetime(p, "end_date")

\* List[DiningLocationBase]: every entry is validated as a DiningLocationBase
\* (_skipping_invalid: entries that fail validation dropped from the list.)
ListOfDiningLocationBase_skipping_invalid(j, fs) ==
    IF j.t # "list" THEN Err
    ELSE LET rs == [i \in 1..Len(j.v) |-> DiningLocationBase(j.v[i], Slot(fs, 2 + i))]
             good == SelectSeq(rs, LAMBDA r : r.ok)
         IN  Ok([i \in 1..Len(good) |-> good[i].val])
ListOfDiningLocationBase(j, fs) ==
    IF j.t # "list" THEN Err
    ELSE LET rs == [i \in 1..Len(j.v) |-> DiningLocationBase(j.v[i], Slot(fs, 2 + i))]
         IN  IF \A i \in 1..Len(j.v) : rs[i].ok
             THEN Ok([i \in 1..Len(j.v) |-> rs[i].val])
             ELSE Err

MealPlanBase_dining_locations(p, fs) ==
    IF Has(p, "dining_locations") THEN ListOfDiningLocationBase(p.dining_locations, fs)
    ELSE Ok(<<>>)

MealPlanBase(p, fs) ==
    LET meal_plan_id == MealPlanBase_meal_plan_id(p, fs)
        name == MealPlanBase_name(p)
        type == MealPlanBase_type(p)
        cost == MealPlanBase_cost(p)
        start_date == MealPlanBase_start_date(p)
        end_date == MealPlanBase_end_date(p)
        dining_locations == MealPlanBase_dining_locations(p, fs)
    IN  IF /\ meal_plan_id.ok /\ name.ok /\ type.ok /\ cost.ok
           /\ start_date.ok /\ end_date.ok /\ dining_locations.ok
        THEN Ok([meal_plan_id |-> meal_plan_id.val, name |-> name.val,
                 type |-> type.val, cost |-> cost.val,
                 start_date |-> start_date.val, end_date |-> end_date.val,
                 dining_locations |-> dining_locations.val])
        ELSE Err

MealPlanCreate(p, fs) == MealPlanBase(p, fs)

MealPlanUpdate_name(p) ==
    IF Has(p, "name") /\ p.name # Null
    THEN LET r == str_validate(p.name) IN IF r.ok THEN Ok(Some(r.val)) ELSE Err
    ELSE Ok(None)

\* (_from_name: the field reading the key "name".)
MealPlanUpdate_type_from_name(p) ==
    IF Has(p, "name") /\ p.name # Null
    THEN LET r == str_validate(p.name) IN IF r.ok THEN Ok(Some(r.val)) ELSE Err
    ELSE Ok(None)
MealPlanUpdate_type(p) ==
    IF Has(p, "type") /\ p.type # Null
    THEN LET r == str_validate(p.type) IN IF r.ok THEN Ok(Some(r.val)) ELSE Err
    ELSE Ok(None)

MealPlanUpdate_cost(p) ==
    IF Has(p, "cost") /\ p.cost # Null
    THEN LET r == float_validate(p.cost) IN IF r.ok THEN Ok(Some(r.val)) ELSE Err
    ELSE Ok(None)

MealPlanUpdate_start_date(p) == OptionalDatetime(p, "start_date")
MealPlanUpdate_end_date(p) == OptionalDatetime(p, "end_date")

MealPlanUpdate_dining_locations(p, fs) ==
    IF Has(p, "dining_locations") /\ p.dining_locations.t # "null"
    THEN LET r == ListOfDiningLocationBase(p.dining_locations, fs)
         IN  IF r.ok THEN Ok(Some(r.val)) ELSE Err
    ELSE Ok(None)

MealPlanUpdate(p, fs) ==
    LET name == MealPlanUpdate_name(p)
        type == MealPlanUpdate_type(p)
        cost == MealPlanUpdate_cost(p)
        start_date == MealPlanUpdate_start_date(p)
        end_date == MealPlanUpdate_end_date(p)
        dining_locations == MealPlanUpdate_dining_locations(p, fs)
    IN  IF /\ name.ok /\ type.ok /\ cost.ok
           /\ start_date.ok /\ end_date.ok /\ dining_locations.ok
        THEN Ok([name |-> name.val, type |-> type.val, cost |-> cost.val,
                 start_date |-> start_date.val, end_date |-> end_date.val,
                 dining_locations |-> dining_locations.val])
        ELSE Err

MealPlanRead_id(p, fs) ==
    IF Has(p, "id") THEN uuid_validate(p.id) ELSE Ok(uuid4(Slot(fs, 2)))

MealPlanRead_created_at(p, t) ==
    IF Has(p, "created_at") THEN datetime_validate(p.created_at) ELSE Ok(utcnow(t))

MealPlanRead_updated_at(p, t) ==
    IF Has(p, "updated_at") THEN datetime_validate(p.updated_at) ELSE Ok(utcnow(t))

MealPlanRead(p, fs, t1, t2) ==
    LET base == MealPlanBase(p, fs)
        id == MealPlanRead_id(p, fs)
        created_at == MealPlanRead_created_at(p, t1)
        updated_at == MealPlanRead_updated_at(p, t2)
    IN  IF base.ok /\ id.ok /\ created_at.ok /\ updated_at.ok
        THEN Ok([meal_plan_id |-> base.val.meal_plan_id, name |-> base.val.name,
                 type |-> base.val.type, cost |-> base.val.cost,
                 start_date |-> base.val.start_date, end_date |-> base.val.end_date,
                 dining_locations |-> base.val.dining_locations,
                 id |-> id.val,
                 created_at |-> created_at.val, updated_at |-> updated_at.val])
        ELSE Err

\* the slots of fs a validation draws
EntrySlots(p) ==
    IF Has(p, "dining_locations") /\ p.dining_locations.t = "list"
    THEN {2 + i : i \in {i \in 1..Len(p.dining_locations.v) :
                            ~Has(p.dining_locations.v[i], "dining_location_id")}}
    ELSE {}
MealPlanBaseSlots(p) == (IF Has(p, "meal_plan_id") THEN {} ELSE {1}) \cup EntrySlots(p)
MealPlanReadSlots(p) == MealPlanBaseSlots(p) \cup (IF Has(p, "id") THEN {} ELSE {2})
MealPlanUpdateSlots(p) == EntrySlots(p)
DiningLocationSlots(p) == IF Has(p, "dining_location_id") THEN {} ELSE {1}

(* ------------------- serialization (model_dump_json) ------------------- *)
\* Infinity and NaN have no JSON form: they are written as null
float_dump(x) == IF x.k = "fin" THEN JFloat(x.n) ELSE Null
datetime_dump(d) == DtStr(d.t, IF d.tz = "utc" THEN 1 ELSE 0)
optional_datetime_dump(o) == IF o = None THEN Null ELSE datetime_dump(o[1])

DiningLocationBase_dump(r) ==
    [dining_location_id |-> UuidStr(r.dining_location_id), name |-> r.name,
     capacity |-> JInt(r.capacity)]

DiningLocationRead_dump(r) ==
    [dining_location_id |-> UuidStr(r.dining_location_id), name |-> r.name,
     capacity |-> JInt(r.capacity),
     created_at |-> datetime_dump(r.created_at),
     updated_at |-> datetime_dump(r.updated_at)]

MealPlanRead_dump(r) ==
    [meal_plan_id |-> UuidStr(r.meal_plan_id), name |-> r.name, type |-> r.type,
     cost |-> float_dump(r.cost),
     start_date |-> optional_datetime_dump(r.start_date),
     end_date |-> optional_datetime_dump(r.end_date),
     dining_locations |->
         JList([i \in 1..Len(r.dining_locations) |->
                    DiningLocationBase_dump(r.dining_locations[i])]),
     id |-> UuidStr(r.id),
     created_at |-> datetime_dump(r.created_at),
     updated_at |-> datetime_dump(r.updated_at)]

TimestampKeys == {"created_at", "updated_at"}

(* ------------------------------ requests ------------------------------- *)
\* A key a payload does not carry is drawn as Absent and then stripped.
Absent == J("absent", 0)
AbsentList == JNoList("absent")
Strip(r) == [k \in {k \in DOMAIN r : r[k].t # "absent"} |-> r[k]]

DLIdChoices == {Absent, UuidStr(1), UuidStr(2), Text(1)}
DLNameChoices == {Absent, Text(1), Text(2), JInt(7), Null}
DLCapacityChoices == {Absent, JInt(200), NumStr(200), JFloat(50), Text(1), Null}
DtChoices == {Absent, DtStr(1, 0), DtStr(2, 1), Text(1)}

DiningLocationPayloads ==
    {Strip(r) : r \in [dining_location_id : DLIdChoices, name : DLNameChoices,
                       capacity : DLCapacityChoices]}

DiningLocationReadPayloads ==
    {Strip(r) : r \in [dining_location_id : {Absent, UuidStr(2)},
                       name : {Absent, Text(1), NumStr(200)},
                       capacity : {JInt(200), NumStr(200), Text(1)},
                       created_at : DtChoices, updated_at : DtChoices]}

\* entries of dining_locations: with and without identifier, one without
\* name, one whose capacity is no number
Entries ==
    {Strip(r) : r \in {
        [dining_location_id |-> UuidStr(1), name |-> Text(1), capacity |-> JInt(200)],
        [dining_location_id |-> Absent, name |-> Text(2), capacity |-> NumStr(200)],
        [dining_location_id |-> UuidStr(2), name |-> Absent, capacity |-> JInt(200)],
        [dining_location_id |-> UuidStr(1), name |-> Text(1), capacity |-> Text(1)]}}

ValidEntries == {e \in Entries : Has(e, "name") /\ e.capacity.t # "str"}

EntryLists == UNION {[1..n -> Entries] : n \in 0..MaxEntries}
ListChoices == {JList(l) : l \in EntryLists}
                   \cup {AbsentList, JNoList("null"), JNoList("str")}

CostChoices ==
    {Absent, JInt(500), JFloat(-2), NumStr(800), Text(3), JInf(1), JNaN, Null}

MealPlanPayloads ==
    {Strip(r) : r \in [meal_plan_id : {Absent, UuidStr(1), Text(1)},
                       name : {Absent, Text(1)},
                       type : {Absent, Text(2)},
                       cost : CostChoices,
                       start_date : {Absent, DtStr(1, 1), Text(1)},
                       end_date : {Absent},
                       dining_locations : ListChoices]}

\* payloads for the Base shape: no list of two or more entries, but end_date
MealPlanBasePayloads ==
    {Strip(r) : r \in [meal_plan_id : {Absent, UuidStr(1), Text(1)},
                       name : {Absent, Text(1), JInt(7)},
                       type : {Absent, Text(2)},
                       cost : CostChoices,
                       start_date : {Absent, DtStr(1, 1), Null},
                       end_date : {Absent, DtStr(2, 0), NumStr(3), Text(1)},
                       dining_locations :
                           {AbsentList, JList(<<>>)} \cup {JList(<<e>>) : e \in Entries}]}

MealPlanUpdatePayloads ==
    {Strip(r) : r \in [meal_plan_id : {Absent, UuidStr(1)},
                       name : {Absent, Text(1), Null},
                       type : {Absent, Text(2)},
                       cost : {Absent, JInt(500), JFloat(-2), Text(3), Null},
                       start_date : {Absent, DtStr(1, 1), Null},
                       end_date : {Absent},
                       dining_locations : ListChoices]}

MealPlanReadPayloads ==
    {Strip(r) : r \in [meal_plan_id : {Absent, UuidStr(1)},
                       name : {Text(1)},
                       type : {Text(2)},
                       cost : {JInt(500), JFloat(-2), JInf(1), JNaN},
                       start_date : {Absent, DtStr(1, 1)},
                       end_date : {Absent},
                       dining_locations :
                           {AbsentList} \cup
                           {JList(l) : l \in {l \in EntryLists :
                               Len(l) > 0 /\ \A i \in 1..Len(l) : l[i] \in ValidEntries}},
                       id : {Absent, UuidStr(2)},
                       created_at : {Absent, DtStr(1, 0), Text(1)},
                       updated_at : {Absent, DtStr(2, 1)}]}

Request(shape, body) == [shape |-> shape, body |-> body]

(* --------------------- the validation state machine -------------------- *)
\* req    the request: the shape asked for and the payload
\* res    the result of the last validation
\* pc     "request" -> "validated" -> "dumped" -> "revalidated"
\* orig   the Read record that was serialized
\* issued the UUIDs uuid4 has returned so far
\* now    the clock
\* produced, stored, last: see the specifications Creations and Lifecycle
NoResult == [ok |-> FALSE]
NoRecord == <<>>
NoCall == [op |-> "none", ok |-> FALSE]

Range(f) == {f[x] : x \in DOMAIN f}

\* what uuid4 can return for the slots S: UUIDs it has not returned before
Draw(S) ==
    {f \in [S -> UUIDs \ issued] : \A a, b \in S : a # b => f[a] # f[b]}

Init ==
    /\ \/ \E b \in DiningLocationPayloads :
              \E s \in {"DiningLocationBase", "DiningLocationCreate",
                        "DiningLocationUpdate"} : req = Request(s, b)
       \/ \E b \in DiningLocationReadPayloads : req = Request("DiningLocationRead", b)
       \/ \E b \in MealPlanBasePayloads : req = Request("MealPlanBase", b)
       \/ \E b \in MealPlanPayloads : req = Request("MealPlanCreate", b)
       \/ \E b \in MealPlanUpdatePayloads : req = Request("MealPlanUpdate", b)
       \/ \E b \in MealPlanReadPayloads : req = Request("MealPlanRead", b)
    /\ res = NoResult
    /\ pc = "request"
    /\ orig = NoRecord
    /\ issued = {}
    /\ now = 0
    /\ produced = <<>>
    /\ stored = NoRecord
    /\ last = NoCall

Validated(r, fs) ==
    /\ res' = r
    /\ issued' = issued \cup Range(fs)
    /\ pc' = IF pc = "request" THEN "validated" ELSE "revalidated"
    /\ UNCHANGED <<req, orig, produced, stored, last>>

ValidateDiningLocationBase ==
    /\ pc = "request" /\ req.shape = "DiningLocationBase"
    /\ \E fs \in Draw(DiningLocationSlots(req.body)) :
           Validated(DiningLocationBase(req.body, Slot(fs, 1)), fs)
    /\ UNCHANGED now

ValidateDiningLocationCreate ==
    /\ pc = "request" /\ req.shape = "DiningLocationCreate"
    /\ \E fs \in Draw(DiningLocationSlots(req.body)) :
           Validated(DiningLocationCreate(req.body, Slot(fs, 1)), fs)
    /\ UNCHANGED now

ValidateDiningLocationUpdate ==
    /\ pc = "request" /\ req.shape = "DiningLocationUpdate"
    /\ Validated(DiningLocationUpdate(req.body), <<>>)
    /\ UNCHANGED now

\* the clock may advance between the two calls of utcnow
ValidateDiningLocationRead ==
    /\ pc \in {"request", "dumped"} /\ req.shape = "DiningLocationRead"
    /\ \E fs \in Draw(DiningLocationSlots(req.body)) :
       \E d \in {0, 1} :
           /\ now + d <= MaxTime
           /\ Validated(DiningLocationRead(req.body, Slot(fs, 1), now, now + d), fs)
           /\ now' = now + d

ValidateMealPlanBase ==
    /\ pc = "request" /\ req.shape = "MealPlanBase"
    /\ \E fs \in Draw(MealPlanBaseSlots(req.body)) :
           Validated(MealPlanBase(req.body, fs), fs)
    /\ UNCHANGED now

ValidateMealPlanCreate ==
    /\ pc = "request" /\ req.shape = "MealPlanCreate"
    /\ \E fs \in Draw(MealPlanBaseSlots(req.body)) :
           Validated(MealPlanCreate(req.body, fs), fs)
    /\ UNCHANGED now

ValidateMealPlanUpdate ==
    /\ pc = "request" /\ req.shape = "MealPlanUpdate"
    /\ \E fs \in Draw(MealPlanUpdateSlots(req.body)) :
           Validated(MealPlanUpdate(req.body, fs), fs)
    /\ UNCHANGED now

ValidateMealPlanRead ==
    /\ pc \in {"request", "dumped"} /\ req.shape = "MealPlanRead"
    /\ \E fs \in Draw(MealPlanReadSlots(req.body)) :
       \E d \in {0, 1} :
           /\ now + d <= MaxTime
           /\ Validated(MealPlanRead(req.body, fs, now, now + d), fs)
           /\ now' = now + d

\* a Read record is serialized; the JSON text is the next request
DumpDiningLocationRead ==
    /\ pc = "validated" /\ req.shape = "DiningLocationRead" /\ res.ok
    /\ orig' = res.val
    /\ req' = Request("DiningLocationRead", DiningLocationRead_dump(res.val))
    /\ res' = NoResult
    /\ pc' = "dumped"
    /\ UNCHANGED <<issued, now, produced, stored, last>>

DumpMealPlanRead ==
    /\ pc = "validated" /\ req.shape = "MealPlanRead" /\ res.ok
    /\ orig' = res.val
    /\ req' = Request("MealPlanRead", MealPlanRead_dump(res.val))
    /\ res' = NoResult
    /\ pc' = "dumped"
    /\ UNCHANGED <<issued, now, produced, stored, last>>

Next ==
    \/ ValidateDiningLocationBase
    \/ ValidateDiningLocationCreate
    \/ ValidateDiningLocationUpdate
    \/ ValidateDiningLocationRead
    \/ ValidateMealPlanBase
    \/ ValidateMealPlanCreate
    \/ ValidateMealPlanUpdate
    \/ ValidateMealPlanRead
    \/ DumpDiningLocationRead
    \/ DumpMealPlanRead

Spec == Init /\ [][Next]_vars

(* ------------------ a sequence of MealPlan creations ------------------- *)
\* produced: the meal_plan_id of every record MealPlanCreate has produced
\* from a payload that supplied none, in order
CreationPayloads ==
    {Strip(r) : r \in [meal_plan_id : {Absent, UuidStr(1)},
                       name : {Text(1)},
                       type : {Absent, Text(2)},
                       cost : {JInt(500), NumStr(800), Text(3)},
                       dining_locations : {AbsentList} \cup
                           {JList(<<e>>) : e \in ValidEntries}]}

CreationsInit ==
    /\ req = Request("MealPlanCreate", <<>>)
    /\ res = NoResult
    /\ pc = "request"
    /\ orig = NoRecord
    /\ issued = {}
    /\ now = 0
    /\ produced = <<>>
    /\ stored = NoRecord
    /\ last = NoCall

CreateMealPlan ==
    \E body \in CreationPayloads :
    \E fs \in Draw(MealPlanBaseSlots(body)) :
        LET r == MealPlanCreate(body, fs)
        IN  /\ req' = Request("MealPlanCreate", body)
            /\ res' = r
            /\ pc' = "validated"
            /\ issued' = issued \cup Range(fs)
            /\ produced' = IF r.ok /\ ~Has(body, "meal_plan_id")
                           THEN Append(produced, r.val.meal_plan_id)
                           ELSE produced
            /\ UNCHANGED <<orig, now, stored, last>>

CreationsNext == CreateMealPlan

Creations == CreationsInit /\ [][CreationsNext]_vars

(* ----------------------- the lifecycle of a record --------------------- *)
\* The service behind the schemas: a record is created from a Create
\* payload (identifier and timestamps assigned), then updated any number of
\* times from Update payloads.  The clock may advance by one during a call.  stored is the record, a DiningLocationRead
\* or a MealPlanRead; last is the last call: its handler, its payload, the
\* UUIDs it drew and whether validation accepted the payload.
IsDiningLocation(r) == "capacity" \in DOMAIN r
IsMealPlan(r) == "cost" \in DOMAIN r

LifecycleDiningLocationCreates ==
    {Strip(r) : r \in [dining_location_id : {Absent, UuidStr(1)},
                       name : {Absent, Text(1)},
                       capacity : {JInt(200), NumStr(200)}]}

LifecycleDiningLocationUpdates ==
    {Strip(r) : r \in [dining_location_id : {Absent, UuidStr(2)},
                       name : {Absent, Text(2), Null, JInt(7)},
                       capacity : {Absent, JInt(50)}]}

LifecycleMealPlanCreates ==
    {Strip(r) : r \in [meal_plan_id : {Absent, UuidStr(1)},
                       name : {Text(1)},
                       type : {Text(2)},
                       cost : {JInt(500), Text(3)},
                       dining_locations : {AbsentList} \cup
                           {JList(<<e>>) : e \in ValidEntries}]}

LifecycleMealPlanUpdates ==
    {Strip(r) : r \in [name : {Absent, Text(3)},
                       type : {Absent, Text(1)},
                       cost : {Absent, JInt(800), Null},
                       dining_locations : {AbsentList, JList(<<>>)}]}

\* Which of the unused UUIDs uuid4 returns makes no difference to the
\* lifecycle of a record: the slots S take the smallest unused ones.
FirstDraw(S) ==
    LET free == UUIDs \ issued
        nth(k) == CHOOSE u \in free : Cardinality({v \in free : v <= u}) = k
    IN  IF Cardinality(S) > Cardinality(free) THEN {}
        ELSE {[s \in S |-> nth(Cardinality({x \in S : x <= s}))]}

\* fields of a stored record that are Optional themselves
OptionalFields == {"start_date", "end_date"}

\* a partial update: every field the Update record sets overwrites the
\* stored one, every other field stays, and updated_at is refreshed
ApplyUpdate(record, update, t) ==
    [f \in DOMAIN record |->
        IF f = "updated_at" THEN utcnow(t)
        ELSE IF f \in DOMAIN update /\ update[f] # None
             THEN IF f \in OptionalFields THEN update[f] ELSE update[f][1]
             ELSE record[f]]

Call(op, body, fs, ok) == [op |-> op, body |-> body, fs |-> fs, ok |-> ok]

LifecycleInit ==
    /\ req = Request("none", <<>>)
    /\ res = NoResult
    /\ pc = "idle"
    /\ orig = NoRecord
    /\ issued = {}
    /\ now = 0
    /\ produced = <<>>
    /\ stored = NoRecord
    /\ last = NoCall

create_dining_location ==
    /\ DOMAIN stored = {}
    /\ \E body \in LifecycleDiningLocationCreates :
       \E fs \in FirstDraw(DiningLocationSlots(body)) :
       \E d \in {0, 1} :
           LET r == DiningLocationCreate(body, Slot(fs, 1))
           IN  /\ now + d <= MaxTime
               /\ issued' = issued \cup Range(fs)
               /\ last' = Call("create_dining_location", body, fs, r.ok)
               /\ IF r.ok
                  THEN /\ stored' = [f \in DOMAIN r.val \cup TimestampKeys |->
                                        CASE f = "created_at" ->
                                                DiningLocationRead_created_at(<<>>, now).val
                                          [] f = "updated_at" ->
                                                DiningLocationRead_updated_at(<<>>, now + d).val
                                          [] OTHER -> r.val[f]]
                       /\ now' = now + d
                  ELSE UNCHANGED <<stored, now>>
    /\ UNCHANGED <<req, res, pc, orig, produced>>

update_dining_location ==
    /\ DOMAIN stored # {} /\ IsDiningLocation(stored)
    /\ \E body \in LifecycleDiningLocationUpdates :
       \E d \in {0, 1} :
           LET r == DiningLocationUpdate(body)
           IN  /\ now + d <= MaxTime
               /\ last' = Call("update_dining_location", body, <<>>, r.ok)
               /\ IF r.ok
                  THEN /\ stored' = ApplyUpdate(stored, r.val, now + d)
                       /\ now' = now + d
                  ELSE UNCHANGED <<stored, now>>
    /\ UNCHANGED <<req, res, pc, orig, issued, produced>>

create_meal_plan ==
    /\ DOMAIN stored = {}
    /\ \E body \in LifecycleMealPlanCreates :
       \E fs \in FirstDraw(MealPlanReadSlots(body)) :
       \E d \in {0, 1} :
           LET r == MealPlanCreate(body, fs)
           IN  /\ now + d <= MaxTime
               /\ issued' = issued \cup Range(fs)
               /\ last' = Call("create_meal_plan", body, fs, r.ok)
               /\ IF r.ok
                  THEN /\ stored' = [f \in DOMAIN r.val \cup {"id"} \cup TimestampKeys |->
                                        CASE f = "id" -> MealPlanRead_id(<<>>, fs).val
                                          [] f = "created_at" ->
                                                MealPlanRead_created_at(<<>>, now).val
                                          [] f = "updated_at" ->
                                                MealPlanRead_updated_at(<<>>, now + d).val
                                          [] OTHER -> r.val[f]]
                       /\ now' = now + d
                  ELSE UNCHANGED <<stored, now>>
    /\ UNCHANGED <<req, res, pc, orig, produced>>

update_meal_plan ==
    /\ DOMAIN stored # {} /\ IsMealPlan(stored)
    /\ \E body \in LifecycleMealPlanUpdates :
       \E fs \in FirstDraw(MealPlanUpdateSlots(body)) :
       \E d \in {0, 1} :
           LET r == MealPlanUpdate(body, fs)
           IN  /\ now + d <= MaxTime
               /\ last' = Call("update_meal_plan", body, fs, r.ok)
               /\ issued' = issued \cup Range(fs)
               /\ IF r.ok
                  THEN /\ stored' = ApplyUpdate(stored, r.val, now + d)
                       /\ now' = now + d
                  ELSE UNCHANGED <<stored, now>>
    /\ UNCHANGED <<req, res, pc, orig, produced>>

LifecycleNext ==
    \/ create_dining_location
    \/ update_dining_location
    \/ create_meal_plan
    \/ update_meal_plan

Lifecycle == LifecycleInit /\ [][LifecycleNext]_vars

(* ------------------------------ properties ----------------------------- *)
CreateShapes == {"DiningLocationCreate", "MealPlanCreate"}
UpdateShapes == {"DiningLocationUpdate", "MealPlanUpdate"}
MealPlanShapes == {"MealPlanBase", "MealPlanCreate", "MealPlanUpdate", "MealPlanRead"}

RequiredKeys(shape) ==
    IF shape = "DiningLocationCreate" THEN {"name", "capacity"}
    ELSE {"name", "type", "cost"}

\* C1: a Create payload that lacks a required field (name or capacity of a
\* DiningLocation; name, type or cost of a MealPlan) fails validation and
\* produces no record, whatever its other fields are.
C1_MissingRequiredFails ==
    (pc = "validated" /\ req.shape \in CreateShapes
        /\ \E k \in RequiredKeys(req.shape) : ~Has(req.body, k))
    => ~res.ok

\* a MealPlanCreate payload that lacks only cost has been rejected
C1_Witness ==
    /\ pc = "validated" /\ req.shape = "MealPlanCreate"
    /\ Has(req.body, "name") /\ Has(req.body, "type") /\ ~Has(req.body, "cost")
    /\ ~res.ok

IdKey(shape) ==
    IF shape = "DiningLocationCreate" THEN "dining_location_id" ELSE "meal_plan_id"

EntriesOf(p) ==
    IF Has(p, "dining_locations") /\ p.dining_locations.t = "list"
    THEN p.dining_locations.v ELSE <<>>

\* C10: a Create shape keeps a caller-supplied identifier: the validated
\* record's identifier is the supplied one, an identifier is generated by
\* uuid4 only when the payload omits it, and the same holds of every entry
\* of dining_locations (so equal supplied identifiers stay equal).
C10_SuppliedIdentifierKept ==
    (pc = "validated" /\ req.shape \in CreateShapes /\ res.ok)
    => /\ IF Has(req.body, IdKey(req.shape))
          THEN res.val[IdKey(req.shape)] = req.body[IdKey(req.shape)].v
          ELSE res.val[IdKey(req.shape)] \in issued
       /\ req.shape = "MealPlanCreate" =>
              \A i \in 1..Len(EntriesOf(req.body)) :
                  IF Has(EntriesOf(req.body)[i], "dining_location_id")
                  THEN res.val.dining_locations[i].dining_location_id
                           = EntriesOf(req.body)[i].dining_location_id.v
                  ELSE res.val.dining_locations[i].dining_location_id \in issued

\* a MealPlanCreate payload with two entries carrying the same identifier
\* has validated, and both validated entries carry it
C10_Witness ==
    /\ pc = "validated" /\ req.shape = "MealPlanCreate" /\ res.ok
    /\ Has(req.body, "meal_plan_id")
    /\ Len(EntriesOf(req.body)) = 2
    /\ Has(EntriesOf(req.body)[1], "dining_location_id")
    /\ Has(EntriesOf(req.body)[2], "dining_location_id")
    /\ EntriesOf(req.body)[1].dining_location_id = EntriesOf(req.body)[2].dining_location_id
    /\ res.val.dining_locations[1].dining_location_id
           = res.val.dining_locations[2].dining_location_id

IdentifierKeys == {"dining_location_id", "meal_plan_id", "id"}

\* C8: an Update record never carries an identifier: the empty payload
\* validates with every field unset, and whatever the payload holds (an
\* identifier key included) the validated Update record has no identifier
\* field.
C8_UpdateHasNoIdentifier ==
    (pc = "validated" /\ req.shape \in UpdateShapes)
    => /\ res.ok => DOMAIN res.val \cap IdentifierKeys = {}
       /\ DOMAIN req.body = {} =>
              res.ok /\ \A f \in DOMAIN res.val : res.val[f] = None

\* an update payload whose body carries an identifier has validated
C8_Witness ==
    /\ pc = "validated" /\ req.shape \in UpdateShapes /\ res.ok
    /\ DOMAIN req.body \cap IdentifierKeys # {}
    /\ DOMAIN res.val \cap IdentifierKeys = {}

\* C7: a MealPlan Create or Update payload is accepted only if every entry
\* of dining_locations is itself accepted as a DiningLocation, and each
\* validated entry is what validating it alone yields.
C7_EntriesValidatedAsDiningLocation ==
    (pc = "validated" /\ req.shape \in {"MealPlanCreate", "MealPlanUpdate"} /\ res.ok)
    => \A i \in 1..Len(EntriesOf(req.body)) :
           LET alone == DiningLocationBase(EntriesOf(req.body)[i], 1)
               got == IF req.shape = "MealPlanCreate" THEN res.val.dining_locations
                      ELSE res.val.dining_locations[1]
           IN  /\ alone.ok
               /\ got[i].name = alone.val.name
               /\ got[i].capacity = alone.val.capacity
               /\ Has(EntriesOf(req.body)[i], "dining_location_id") =>
                      got[i].dining_location_id = alone.val.dining_location_id

\* a MealPlanCreate payload, itself well-formed, has been rejected because
\* one of its two entries lacks name or has a capacity that is no number
C7_Witness ==
    /\ pc = "validated" /\ req.shape = "MealPlanCreate" /\ ~res.ok
    /\ Len(EntriesOf(req.body)) = 2
    /\ DiningLocationBase(EntriesOf(req.body)[1], 1).ok
    /\ ~DiningLocationBase(EntriesOf(req.body)[2], 1).ok
    /\ MealPlanCreate([k \in DOMAIN req.body \ {"dining_locations"} |-> req.body[k]],
                      <<1>>).ok

DiningLocationBaseFields == {"dining_location_id", "name", "capacity"}
MealPlanBaseFields ==
    {"meal_plan_id", "name", "type", "cost", "start_date", "end_date",
     "dining_locations"}

\* C5: in both families the Read shape's fields are exactly the Base
\* shape's fields plus created_at and updated_at, and no record of another
\* shape (Base, Create, Update) has a timestamp field.
C5_ReadIsBasePlusTimestamps ==
    (pc = "validated" /\ res.ok)
    => CASE req.shape = "DiningLocationRead" ->
                DOMAIN res.val = DiningLocationBaseFields \cup TimestampKeys
         [] req.shape = "MealPlanRead" ->
                DOMAIN res.val = MealPlanBaseFields \cup TimestampKeys
         [] OTHER -> DOMAIN res.val \cap TimestampKeys = {}

NonNegative(x) == (x.k = "fin" /\ x.n >= 0) \/ (x.k = "inf" /\ x.n > 0)

\* C6: every validated MealPlan record (Base, Create, Read) has cost >= 0,
\* and so has every validated MealPlanUpdate that carries a cost: a negative
\* cost is never accepted.
C6_CostNonNegative ==
    (pc = "validated" /\ req.shape \in MealPlanShapes /\ res.ok)
    => IF req.shape = "MealPlanUpdate"
       THEN res.val.cost # None => NonNegative(res.val.cost[1])
       ELSE NonNegative(res.val.cost)

\* C4: serializing a Read record and validating the JSON against the same
\* Read shape succeeds and yields a record equal to the original in every
\* field.
C4_ReadRoundTrip ==
    pc = "revalidated" => res.ok /\ res.val = orig

\* C2: a valid MealPlanCreate payload that supplies no meal_plan_id yields a
\* record whose meal_plan_id uuid4 has just generated, and over any sequence
\* of such creations no two produced records share a meal_plan_id.
C2_GeneratedIdsUnique ==
    /\ \A i, j \in 1..Len(produced) : i # j => produced[i] # produced[j]
    /\ \A i \in 1..Len(produced) : produced[i] \in issued
    /\ (pc = "validated" /\ res.ok /\ ~Has(req.body, "meal_plan_id"))
           => /\ Len(produced) > 0
              /\ res.val.meal_plan_id = produced[Len(produced)]

\* three records have been produced from payloads without meal_plan_id
C2_Witness ==
    /\ Len(produced) >= 3
    /\ pc = "validated" /\ res.ok /\ ~Has(req.body, "meal_plan_id")

UpdateCalls == {"update_dining_location", "update_meal_plan"}
DiningLocationUpdateFields == {"name", "capacity"}
MealPlanUpdateFields ==
    {"name", "type", "cost", "start_date", "end_date", "dining_locations"}
UpdateFields(op) ==
    IF op = "update_dining_location" THEN DiningLocationUpdateFields
    ELSE MealPlanUpdateFields

\* the payload carries a value for field f of the Update shape
Present(op, body, f) == f \in UpdateFields(op) /\ Has(body, f) /\ body[f].t # "null"

\* the value the payload carries for f, as the field's type reads it
ValueOf(body, f, fs) ==
    CASE f \in {"name", "type"} -> str_validate(body[f]).val
      [] f = "capacity" -> int_validate(body[f]).val
      [] f = "cost" -> float_validate(body[f]).val
      [] f \in OptionalFields -> Some(datetime_validate(body[f]).val)
      [] f = "dining_locations" -> ListOfDiningLocationBase(body[f], fs).val

\* C3: applying an accepted Update payload to the stored record changes
\* exactly the fields the payload carries: a field it carries takes the
\* payload's value (dining_locations as a whole list), every other field
\* keeps its prior value; updated_at alone is refreshed by the update.
C3_UpdateChangesExactlyPresentFields ==
    [][(DOMAIN stored # {} /\ last'.op \in UpdateCalls /\ last'.ok)
       => \A f \in DOMAIN stored \ {"updated_at"} :
              IF Present(last'.op, last'.body, f)
              THEN stored'[f] = ValueOf(last'.body, f, last'.fs)
              ELSE stored'[f] = stored[f]]_vars

\* a stored meal plan with one dining location was updated with a payload
\* of cost alone: cost is the new one, name and dining_locations are as
\* created
C3_Witness ==
    /\ last.op = "update_meal_plan" /\ last.ok
    /\ DOMAIN last.body = {"cost"} /\ last.body.cost = JInt(800)
    /\ stored.cost = Fin(800)
    /\ stored.name = Text(1)
    /\ Len(stored.dining_locations) = 1

Identifier(r) == IF IsDiningLocation(r) THEN r.dining_location_id ELSE r.meal_plan_id

\* C9: from its creation on, a record keeps its identifier and its
\* created_at through every update, each update sets updated_at to the time
\* of the update, and created_at <= updated_at holds throughout.
C9_IdentifierAndCreatedAtImmutable ==
    /\ [](DOMAIN stored # {} => stored.created_at.t <= stored.updated_at.t)
    /\ [][DOMAIN stored # {}
          => /\ DOMAIN stored' = DOMAIN stored
             /\ Identifier(stored') = Identifier(stored)
             /\ stored'.created_at = stored.created_at
             /\ stored'.updated_at.t >= stored.updated_at.t
             /\ last'.ok => stored'.updated_at = utcnow(now')]_vars

\* a record has been updated at a later time than it was created, by a
\* payload whose body carried an identifier
C9_Witness ==
    /\ last.op = "update_dining_location" /\ last.ok
    /\ Has(last.body, "dining_location_id")
    /\ stored.created_at.t < stored.updated_at.t
    /\ stored.dining_location_id # last.body.dining_location_id.v

====
